---------------------------- MODULE Spec2Model ----------------------------
(***************************************************************************)
(* Compliance evaluation of the non-linearity analysis package:            *)
(*   - the failure classifier (core/compliance.py flags, core/metrics.py   *)
(*     PSI values, metric values and determine_failure_type), run on one   *)
(*     row of the frame: every stage is an element-wise column operation,  *)
(*     so a row is classified independently of the other rows;             *)
(*   - the recovery-time analyzer (analysis/recovery.py);                  *)
(*   - the non-stationarity scorer (analysis/nonstationarity.py);          *)
(*   - process_dataframe on a whole frame (core/metrics.py with the limits *)
(*     of core/compliance.py and core/linearisation.py), from validation   *)
(*     to the classified frame, with frames as objects in memory;          *)
(*   - the scenario loop of run_full_analysis (core/processors.py).        *)
(* Each component has its own specification; the variables of the other    *)
(* components stay at their idle values.                                   *)
(***************************************************************************)
EXTENDS Integers, Sequences, FiniteSets, TLC

VARIABLES
    \* process_dataframe
    pc,     \* stage of process_dataframe the row has been through
    df,     \* the row of the working frame: column name -> value
    \* analysis/recovery.py
    rpc,                        \* position in the recovery analysis
    series,                     \* the fail_type series
    time_step_arg,              \* the time_step argument: <<>> is None
    time_step,                  \* the time step in use
    pos,                        \* index of the next element of the scan
    recovery_times,
    non_compliance_duration,
    in_non_compliance,
    recovery_times_minutes,
    rows,                       \* rows of get_recovery_analysis
    mean_recovery,              \* result of compute_mean_recovery_time
    \* analysis/nonstationarity.py
    npc,                        \* position in non_stationarity_score
    ns_series,                  \* the series argument
    window,                     \* the window argument
    clean_series,
    rolling_var,
    overall_var,
    score,                      \* the value returned: <<>> until the return
    \* core/metrics.py, process_dataframe on a whole frame
    ppc,            \* position in process_dataframe
    given,          \* the df argument as the caller passed it: <<>> is None
    frames,         \* the frame objects in memory: <<>> when df is None
    result,         \* the object the local name result is bound to, 0: none
    limits_arg,     \* the limits argument: <<>> is None
    limits,         \* the limits in use: <<>> until they are set
    stages_run,     \* the stages that have returned, in order
    raised,         \* the exception that left process_dataframe, "": none
    \* core/processors.py, run_full_analysis
    apc,            \* position in run_full_analysis
    folders,        \* scenario key -> the frame process_folder returns
    todo,           \* the scenario keys the loop has not reached
    results,        \* the results dict
    escaped,        \* the exception that left run_full_analysis, "": none
    \* utils/decorators.py, the wrapper retry makes
    tpc,            \* position in the wrapper
    max_attempts,   \* the max_attempts argument
    delay,          \* the delay argument
    attempt,        \* the loop variable
    history,        \* what each invocation of func did, in order
    slept,          \* the delays time.sleep has been called with
    outcome         \* what the wrapper returned or raised, <<>>: nothing yet

clsVars == <<pc, df>>

recVars == <<rpc, series, time_step_arg, time_step, pos, recovery_times,
             non_compliance_duration, in_non_compliance,
             recovery_times_minutes, rows, mean_recovery>>

nsVars == <<npc, ns_series, window, clean_series, rolling_var, overall_var,
            score>>

pipeVars == <<ppc, given, frames, result, limits_arg, limits, stages_run, raised>>

anaVars == <<apc, folders, todo, results, escaped>>

retryVars == <<tpc, max_attempts, delay, attempt, history, slept, outcome>>

vars == <<clsVars, recVars, nsVars, pipeVars, anaVars, retryVars>>

\* a component that is not running
ClassifyIdle ==
    /\ pc = "idle"
    /\ df = <<>>

RecoveryIdle ==
    /\ rpc = "idle"
    /\ series = <<>>
    /\ time_step_arg = <<>>
    /\ time_step = 0
    /\ pos = 0
    /\ recovery_times = <<>>
    /\ non_compliance_duration = 0
    /\ in_non_compliance = FALSE
    /\ recovery_times_minutes = <<>>
    /\ rows = <<>>
    /\ mean_recovery = <<>>

ScoreIdle ==
    /\ npc = "idle"
    /\ ns_series = <<>>
    /\ window = 0
    /\ clean_series = <<>>
    /\ rolling_var = <<>>
    /\ overall_var = <<>>
    /\ score = <<>>

PipelineIdle ==
    /\ ppc = "idle"
    /\ given = <<>>
    /\ frames = <<>>
    /\ result = 0
    /\ limits_arg = <<>>
    /\ limits = <<>>
    /\ stages_run = <<>>
    /\ raised = ""

AnalysisIdle ==
    /\ apc = "idle"
    /\ folders = <<>>
    /\ todo = <<>>
    /\ results = <<>>
    /\ escaped = ""

RetryIdle ==
    /\ tpc = "idle"
    /\ max_attempts = 0
    /\ delay = 0
    /\ attempt = 0
    /\ history = <<>>
    /\ slept = <<>>
    /\ outcome = <<>>

-----------------------------------------------------------------------------
(* Bounds *)

\* deviation and reduction columns take values in -MaxDev..MaxDev
MaxDev == 2

DevVals == (0 - MaxDev)..MaxDev

\* longest fail_type series handed to the recovery analysis
MaxLen == 6

\* longest series handed to non_stationarity_score, and its largest value
MaxSeriesLen == 4
MaxVal == 2

\* most rows of a frame handed to process_dataframe
MaxRows == 2

\* largest max_attempts given to retry
MaxAttempts == 3

-----------------------------------------------------------------------------
(* Helpers for frames *)

\* result[col] = value for several columns: new columns are added, an
\* existing column of the same name is overwritten
Assign(r, new) == new @@ r

Min2(a, b) == IF a <= b THEN a ELSE b
Max2(a, b) == IF a >= b THEN a ELSE b

\* numpy.select(condlist, choicelist, default): the choice of the first
\* condition that is true, the default when none is
RECURSIVE np_select(_, _, _)
np_select(condlist, choicelist, default) ==
    IF condlist = <<>> THEN default
    ELSE IF Head(condlist) THEN Head(choicelist)
    ELSE np_select(Tail(condlist), Tail(choicelist), default)

-----------------------------------------------------------------------------
(* Floating-point values: NaN, an infinity (num = 1 or -1 over den = 0), or *)
(* a fraction num/den in lowest terms with den > 0 (arithmetic is exact).   *)

RECURSIVE GCD(_, _)
GCD(a, b) == IF b = 0 THEN a ELSE GCD(b, a % b)

Abs(x) == IF x < 0 THEN 0 - x ELSE x

NaN == [nan |-> TRUE, num |-> 0, den |-> 1]

\* num/den: 0/0 is NaN, x/0 with x # 0 the infinity of the sign of x
Frac(n, d) ==
    IF n = 0 /\ d = 0 THEN NaN
    ELSE LET g == GCD(Abs(n), Abs(d))
             sgn == IF d < 0 THEN 0 - 1 ELSE 1
         IN  [nan |-> FALSE, num |-> sgn * (n \div g), den |-> sgn * (d \div g)]

Float(i) == [nan |-> FALSE, num |-> i, den |-> 1]

FNeg(a) == IF a.nan THEN NaN ELSE [a EXCEPT !.num = 0 - a.num]

\* inf + inf is inf, inf + (-inf) is NaN
FAdd(a, b) ==
    IF a.nan \/ b.nan THEN NaN
    ELSE IF a.den = 0 /\ b.den = 0 THEN (IF a.num = b.num THEN a ELSE NaN)
    ELSE Frac(a.num * b.den + b.num * a.den, a.den * b.den)

FSub(a, b) == FAdd(a, FNeg(b))

\* 0 * inf is NaN
FMul(a, b) ==
    IF a.nan \/ b.nan THEN NaN ELSE Frac(a.num * b.num, a.den * b.den)

\* a / b for floats: no exception is raised for a zero divisor, x/0 is an
\* infinity for x # 0 and 0/0 is NaN (numpy and pandas only warn)
FDiv(a, b) ==
    IF a.nan \/ b.nan THEN NaN
    ELSE LET s == IF b.num < 0 THEN 0 - 1 ELSE 1
         IN  Frac(s * a.num * b.den, a.den * Abs(b.num))

FAbs(a) == IF a.nan THEN NaN ELSE [a EXCEPT !.num = Abs(a.num)]

\* x == 0: False for NaN
FIsZero(a) == ~a.nan /\ a.num = 0

\* comparisons: False when an operand is NaN
FLt(a, b) ==
    /\ ~a.nan /\ ~b.nan
    /\ IF a.den = 0 /\ b.den = 0 THEN a.num < b.num
       ELSE a.num * b.den < b.num * a.den

FLe(a, b) ==
    /\ ~a.nan /\ ~b.nan
    /\ IF a.den = 0 /\ b.den = 0 THEN a.num <= b.num
       ELSE a.num * b.den <= b.num * a.den

\* DataFrame.min(axis=1) and DataFrame.max(axis=1) over two or three
\* columns of one row: NaN is skipped
FMin2(a, b) ==
    IF a.nan THEN b ELSE IF b.nan THEN a ELSE IF FLe(a, b) THEN a ELSE b

FMax2(a, b) ==
    IF a.nan THEN b ELSE IF b.nan THEN a ELSE IF FLe(b, a) THEN a ELSE b

FMin3(a, b, c) == FMin2(FMin2(a, b), c)

RECURSIVE FSum(_)
FSum(s) == IF s = <<>> THEN Float(0) ELSE FAdd(Head(s), FSum(Tail(s)))

-----------------------------------------------------------------------------
(* Columns *)

\* the columns calculate_deviation_columns and calculate_reduction_columns
\* leave in the frame (steps 3 and 4 of process_dataframe)
DeviationColumns ==
    {"BODlt-BODeffl", "BODut-BODeffl", "bodp",
     "CODlt-CODeffl", "CODut-CODeffl", "codp"}

-----------------------------------------------------------------------------
(* core/compliance.py *)

calculate_flag_conditions(r) ==
    Assign(r,
        ("flag_BODlt" :> FLe(Float(0), r["BODlt-BODeffl"])) @@
        ("flag_BODut" :> FLe(Float(0), r["BODut-BODeffl"])) @@
        ("flag_CODlt" :> FLe(Float(0), r["CODlt-CODeffl"])) @@
        ("flag_reduction_bod" :> FLe(Float(0), r["bodp"])) @@
        ("flag_reduction_cod" :> FLe(Float(0), r["codp"])) @@
        ("flag_CODut" :> FLe(Float(0), r["CODut-CODeffl"])))

-----------------------------------------------------------------------------
(* core/metrics.py *)

calculate_psi_values(r) ==
    LET bod_psi_1_min == FMin2(r["BODlt-BODeffl"], r["bodp"])
        cod_psi_1_min == FMin2(r["CODlt-CODeffl"], r["codp"])
    IN  Assign(r,
        ("bod_psi_1_min" :> bod_psi_1_min) @@
        ("bod_psi_1" :> FMax2(r["BODlt-BODeffl"], bod_psi_1_min)) @@
        ("bod_psi_2" :> FMin3(r["BODlt-BODeffl"], r["bodp"], r["BODut-BODeffl"])) @@
        ("bod_psi_3" :> FMin2(r["BODut-BODeffl"], r["bodp"])) @@
        ("cod_psi_1_min" :> cod_psi_1_min) @@
        ("cod_psi_1" :> FMax2(r["CODlt-CODeffl"], cod_psi_1_min)) @@
        ("cod_psi_2" :> FMin3(r["CODlt-CODeffl"], r["codp"], r["CODut-CODeffl"])) @@
        ("cod_psi_3" :> FMin2(r["CODut-CODeffl"], r["codp"])))

calculate_metric_values(r) ==
    Assign(r,
        ("metric_lut" :> FMin2(r["bod_psi_2"], r["cod_psi_2"])) @@
        ("metric_max" :> FMin2(r["bod_psi_3"], r["cod_psi_3"])))

\* the failure conditions of determine_failure_type
bod_lut_exc(r) ==
    /\ FLt(r["bod_psi_2"], Float(0))
    /\ r["flag_BODlt"] = FALSE
    /\ r["flag_reduction_bod"] = FALSE
    /\ r["flag_BODut"] = TRUE

bod_max_lim_any_upper(r) ==
    /\ FLt(r["bod_psi_3"], Float(0))
    /\ r["flag_BODlt"] = FALSE
    /\ r["flag_reduction_bod"] = FALSE
bod_max_lim(r) ==
    /\ FLt(r["bod_psi_3"], Float(0))
    /\ r["flag_BODlt"] = FALSE
    /\ r["flag_BODut"] = FALSE
    /\ r["flag_reduction_bod"] = FALSE

cod_lut_exc(r) ==
    /\ FLt(r["cod_psi_2"], Float(0))
    /\ r["flag_CODlt"] = FALSE
    /\ r["flag_reduction_cod"] = FALSE
    /\ r["flag_CODut"] = TRUE

cod_max_lim(r) ==
    /\ FLt(r["cod_psi_3"], Float(0))
    /\ r["flag_CODlt"] = FALSE
    /\ r["flag_CODut"] = FALSE
    /\ r["flag_reduction_cod"] = FALSE

\* combined conditions
condition_2(r) == bod_lut_exc(r) \/ cod_lut_exc(r)
condition_3(r) == bod_max_lim(r) \/ cod_max_lim(r)

\* metric selection logic
cond_lut(r) == condition_2(r) /\ ~condition_3(r)

cond_max_fixed(r) == condition_3(r)
cond_max(r) == condition_2(r) /\ condition_3(r)

default_val_psi_1_min(r) == FMax2(r["bod_psi_1_min"], r["cod_psi_1_min"])
default_val(r) == FMax2(r["bod_psi_1"], r["cod_psi_1"])

metric(r) ==
    np_select(<<cond_lut(r), cond_max(r)>>,
              <<r["metric_lut"], r["metric_max"]>>,
              default_val(r))

fail_type_conditions_cod_first(r) ==
    <<cod_lut_exc(r), cod_max_lim(r), bod_lut_exc(r), bod_max_lim(r)>>
fail_type_conditions(r) ==
    <<bod_lut_exc(r), bod_max_lim(r), cod_lut_exc(r), cod_max_lim(r)>>

fail_type_values_cod_swapped ==
    <<"LUT exceedance", "Max Limit Failure",
      "Max Limit Failure", "LUT exceedance">>
fail_type_values ==
    <<"LUT exceedance", "Max Limit Failure",
      "LUT exceedance", "Max Limit Failure">>

fail_type(r) ==
    np_select(fail_type_conditions(r), fail_type_values, "Compliant")

fail_source_lut_only(r) ==
    np_select(<<bod_lut_exc(r), cod_lut_exc(r)>>, <<"BOD", "COD">>, "None")
fail_source(r) ==
    np_select(<<bod_lut_exc(r) \/ bod_max_lim(r),
                cod_lut_exc(r) \/ cod_max_lim(r)>>,
              <<"BOD", "COD">>,
              "None")

determine_failure_type(r) ==
    Assign(r,
        ("metric" :> metric(r)) @@
        ("fail_type" :> fail_type(r)) @@
        ("fail_source" :> fail_source(r)) @@
        ("bod_lut_exc" :> bod_lut_exc(r)) @@
        ("bod_max_lim" :> bod_max_lim(r)) @@
        ("cod_lut_exc" :> cod_lut_exc(r)) @@
        ("cod_max_lim" :> cod_max_lim(r)) @@
        ("c_BOD_2" :> FLt(r["bod_psi_2"], r["cod_psi_2"])) @@
        ("c_BOD_3" :> FLt(r["bod_psi_3"], r["cod_psi_3"])))

-----------------------------------------------------------------------------
(* process_dataframe, steps 5 to 8, on a row that steps 1 to 4 produced *)

ClassifyInit ==
    /\ pc = "reductions"
    /\ df \in [DeviationColumns -> {Float(v) : v \in DevVals}]
    /\ RecoveryIdle
    /\ ScoreIdle
    /\ PipelineIdle
    /\ AnalysisIdle
    /\ RetryIdle

Step5_Flags ==
    /\ pc = "reductions"
    /\ df' = calculate_flag_conditions(df)
    /\ pc' = "flags"
    /\ UNCHANGED <<recVars, nsVars, pipeVars, anaVars, retryVars>>

Step6_Psi ==
    /\ pc = "flags"
    /\ df' = calculate_psi_values(df)
    /\ pc' = "psi"
    /\ UNCHANGED <<recVars, nsVars, pipeVars, anaVars, retryVars>>

Step7_Metrics ==
    /\ pc = "psi"
    /\ df' = calculate_metric_values(df)
    /\ pc' = "metrics"
    /\ UNCHANGED <<recVars, nsVars, pipeVars, anaVars, retryVars>>

Step8_FailureType ==
    /\ pc = "metrics"
    /\ df' = determine_failure_type(df)
    /\ pc' = "classified"
    /\ UNCHANGED <<recVars, nsVars, pipeVars, anaVars, retryVars>>

ClassifyNext ==
    \/ Step5_Flags
    \/ Step6_Psi
    \/ Step7_Metrics
    \/ Step8_FailureType

SpecClassify == ClassifyInit /\ [][ClassifyNext]_vars

-----------------------------------------------------------------------------
(* config.py: ComplianceLimits, REQUIRED_COLUMNS, SCENARIOS *)

\* ComplianceLimits(): the default thresholds and reduction fractions
ComplianceLimits ==
    [bod_upper |-> 50, bod_lower |-> 25, cod_upper |-> 250, cod_lower |-> 125,
     bod_pc |-> Frac(7, 10), cod_pc |-> Frac(3, 4)]

REQUIRED_COLUMNS == {"bod1", "cod1", "bod31", "cod31", "snh1", "snh31"}

\* the keys of SCENARIOS, in the order of the dict
SCENARIOS == <<"baseline", "130%", "150%", "190%">>

-----------------------------------------------------------------------------
(* Frames.  A frame has n rows and, for every column name, the sequence of  *)
(* the n values of the column.  Memory is a sequence of frame objects:      *)
(* object 1 is the frame of the caller, the objects after it are the        *)
(* copies the stages have made, the newest last.                            *)

\* DataFrame.empty: no rows or no columns
df_empty(f) == f.n = 0 \/ DOMAIN f.cols = {}

\* Series.min() and Series.max(): NaN is skipped
RECURSIVE series_min(_)
series_min(s) ==
    IF s = <<>> THEN NaN ELSE FMin2(Head(s), series_min(Tail(s)))

RECURSIVE series_max(_)
series_max(s) ==
    IF s = <<>> THEN NaN ELSE FMax2(Head(s), series_max(Tail(s)))

\* a scalar assigned to a column: every row gets the value
broadcast(n, v) == [k \in 1..n |-> v]

\* result = df.copy(): a new object with the content of object i
df_copy_alias(h, i) == [frames |-> h, result |-> i]
df_copy(h, i) == [frames |-> Append(h, h[i]), result |-> Len(h) + 1]

\* the objects still referred to when a stage is called on object i: the
\* frame of the caller and object i
live(h, i) == IF i = 1 THEN <<h[1]>> ELSE <<h[1], h[i]>>

\* result[name] = values, for several names: the columns are added to the
\* object result is bound to, the other columns stay
setitem(m, new) == [m EXCEPT !.frames[m.result].cols = new @@ @]

\* row k of a frame: column name -> value
row(f, k) == [c \in DOMAIN f.cols |-> f.cols[c][k]]

\* what a stage made of element-wise column operations does to one row
row_stage(name, r) ==
    CASE name = "flags" -> calculate_flag_conditions(r)
      [] name = "psi" -> calculate_psi_values(r)
      [] name = "metrics" -> calculate_metric_values(r)
      [] name = "failure_type" -> determine_failure_type(r)

\* a stage made of element-wise column operations: a copy of the frame
\* with the columns the stage gives every row
each_row_added_only(h, i, name) ==
    LET arg == h[i]
        out == <<>> @@ [k \in 1..arg.n |-> row_stage(name, row(arg, k))]
        m == df_copy(h, i)
    IN  [m EXCEPT !.frames[m.result].cols =
            [c \in DOMAIN out[1] \ DOMAIN arg.cols |->
                [k \in 1..arg.n |-> out[k][c]]]]
each_row(h, i, name) ==
    LET arg == h[i]
        out == <<>> @@ [k \in 1..arg.n |-> row_stage(name, row(arg, k))]
    IN  setitem(df_copy(h, i),
                [c \in DOMAIN out[1] |-> [k \in 1..arg.n |-> out[k][c]]])

-----------------------------------------------------------------------------
(* core/compliance.py, limits *)

calculate_bod_limits_swapped(h, i, lim) ==
    LET arg == h[i]
        lo == series_min(arg.cols["bod31"])
        hi == series_max(arg.cols["bod1"])
    IN  setitem(df_copy(h, i),
            ("BODut" :> broadcast(arg.n,
                FAbs(FDiv(FSub(Float(lim.bod_lower), lo), FSub(hi, lo))))) @@
            ("BODlt" :> broadcast(arg.n,
                FAbs(FDiv(FSub(Float(lim.bod_upper), lo), FSub(hi, lo))))))
calculate_bod_limits(h, i, lim) ==
    LET arg == h[i]
        lo == series_min(arg.cols["bod31"])
        hi == series_max(arg.cols["bod1"])
    IN  setitem(df_copy(h, i),
            ("BODut" :> broadcast(arg.n,
                FAbs(FDiv(FSub(Float(lim.bod_upper), lo), FSub(hi, lo))))) @@
            ("BODlt" :> broadcast(arg.n,
                FAbs(FDiv(FSub(Float(lim.bod_lower), lo), FSub(hi, lo))))))

calculate_cod_limits(h, i, lim) ==
    LET arg == h[i]
        lo == series_min(arg.cols["cod31"])
        hi == series_max(arg.cols["cod1"])
    IN  setitem(df_copy(h, i),
            ("CODut" :> broadcast(arg.n,
                FAbs(FDiv(FSub(Float(lim.cod_upper), lo), FSub(hi, lo))))) @@
            ("CODlt" :> broadcast(arg.n,
                FAbs(FDiv(FSub(Float(lim.cod_lower), lo), FSub(hi, lo))))))

\* the limits argument is <<>> for None and <<l>> for the limits l
calculate_all_limits(h, i, limits_opt) ==
    LET lim == IF limits_opt = <<>> THEN ComplianceLimits ELSE limits_opt[1]
        m == calculate_bod_limits(h, i, lim)
    IN  calculate_cod_limits(m.frames, m.result, lim)

-----------------------------------------------------------------------------
(* core/linearisation.py *)

linearise_bod_influent_floor(h, i) ==
    LET arg == h[i]
        lo == series_min(arg.cols["bod1"])
        hi == series_max(arg.cols["bod1"])
    IN  setitem(df_copy(h, i),
            ("LIN_BODe" :> [k \in 1..arg.n |->
                FAbs(FDiv(FSub(arg.cols["bod31"][k], lo), FSub(hi, lo)))]) @@
            ("LIN_BODi" :> [k \in 1..arg.n |->
                FAbs(FDiv(FSub(arg.cols["bod1"][k], lo), FSub(hi, lo)))]))
linearise_bod(h, i) ==
    LET arg == h[i]
        lo == series_min(arg.cols["bod31"])
        hi == series_max(arg.cols["bod1"])
    IN  setitem(df_copy(h, i),
            ("LIN_BODe" :> [k \in 1..arg.n |->
                FAbs(FDiv(FSub(arg.cols["bod31"][k], lo), FSub(hi, lo)))]) @@
            ("LIN_BODi" :> [k \in 1..arg.n |->
                FAbs(FDiv(FSub(arg.cols["bod1"][k], lo), FSub(hi, lo)))]))

linearise_cod_effluent_span(h, i) ==
    LET arg == h[i]
        lo == series_min(arg.cols["cod31"])
        hi == series_max(arg.cols["cod31"])
    IN  setitem(df_copy(h, i),
            ("LIN_CODe" :> [k \in 1..arg.n |->
                FAbs(FDiv(FSub(arg.cols["cod31"][k], lo), FSub(hi, lo)))]) @@
            ("LIN_CODi" :> [k \in 1..arg.n |->
                FAbs(FDiv(FSub(arg.cols["cod1"][k], lo), FSub(hi, lo)))]))
linearise_cod(h, i) ==
    LET arg == h[i]
        lo == series_min(arg.cols["cod31"])
        hi == series_max(arg.cols["cod1"])
    IN  setitem(df_copy(h, i),
            ("LIN_CODe" :> [k \in 1..arg.n |->
                FAbs(FDiv(FSub(arg.cols["cod31"][k], lo), FSub(hi, lo)))]) @@
            ("LIN_CODi" :> [k \in 1..arg.n |->
                FAbs(FDiv(FSub(arg.cols["cod1"][k], lo), FSub(hi, lo)))]))

apply_linearisation(h, i) ==
    LET m == linearise_bod(h, i)
    IN  linearise_cod(m.frames, m.result)

calculate_deviation_columns_upper_only(h, i) ==
    LET m == df_copy(h, i)
        c == m.frames[m.result].cols
        n == m.frames[m.result].n
    IN  setitem(m,
            ("BODut-BODeffl" :> [k \in 1..n |-> FSub(c["BODut"][k], c["LIN_BODe"][k])]) @@
            ("CODut-CODeffl" :> [k \in 1..n |-> FSub(c["CODut"][k], c["LIN_CODe"][k])]) @@
            ("BODlt-BODeffl" :> [k \in 1..n |-> FSub(c["BODut"][k], c["LIN_BODe"][k])]) @@
            ("CODlt-CODeffl" :> [k \in 1..n |-> FSub(c["CODlt"][k], c["LIN_CODe"][k])]))
calculate_deviation_columns(h, i) ==
    LET m == df_copy(h, i)
        c == m.frames[m.result].cols
        n == m.frames[m.result].n
    IN  setitem(m,
            ("BODut-BODeffl" :> [k \in 1..n |-> FSub(c["BODut"][k], c["LIN_BODe"][k])]) @@
            ("CODut-CODeffl" :> [k \in 1..n |-> FSub(c["CODut"][k], c["LIN_CODe"][k])]) @@
            ("BODlt-BODeffl" :> [k \in 1..n |-> FSub(c["BODlt"][k], c["LIN_BODe"][k])]) @@
            ("CODlt-CODeffl" :> [k \in 1..n |-> FSub(c["CODlt"][k], c["LIN_CODe"][k])]))

calculate_reduction_columns(h, i, bod_pc, cod_pc) ==
    LET m == df_copy(h, i)
        c == m.frames[m.result].cols
        n == m.frames[m.result].n
    IN  setitem(m,
            ("bodp" :> [k \in 1..n |->
                FSub(FAdd(FNeg(FMul(bod_pc, c["LIN_BODi"][k])), c["LIN_BODi"][k]),
                     c["LIN_BODe"][k])]) @@
            ("codp" :> [k \in 1..n |->
                FSub(FAdd(FNeg(FMul(cod_pc, c["LIN_CODi"][k])), c["LIN_CODi"][k]),
                     c["LIN_CODe"][k])]))

-----------------------------------------------------------------------------
(* data/validators.py.  The frame argument is <<>> for None and <<f>> for   *)
(* the frame f; the value is the exception raised, "" when none is.         *)

check_required_columns(f, required_columns) ==
    required_columns \ DOMAIN f.cols

validate_dataframe_rows_unchecked(arg, required_columns, allow_empty) ==
    IF arg = <<>> THEN "DataValidationError"
    ELSE IF check_required_columns(arg[1], required_columns) # {}
    THEN "DataValidationError"
    ELSE ""
validate_dataframe(arg, required_columns, allow_empty) ==
    IF arg = <<>> THEN "DataValidationError"
    ELSE IF ~allow_empty /\ df_empty(arg[1]) THEN "DataValidationError"
    ELSE IF check_required_columns(arg[1], required_columns) # {}
    THEN "DataValidationError"
    ELSE ""

-----------------------------------------------------------------------------
(* core/metrics.py, process_dataframe *)

\* the stages in the order process_dataframe calls them
stage_order_deviations_early ==
    <<"limits", "deviations", "linearisation", "reductions",
      "flags", "psi", "metrics", "failure_type">>
stage_order ==
    <<"limits", "linearisation", "deviations", "reductions",
      "flags", "psi", "metrics", "failure_type">>

\* the columns a stage reads from its argument: reading a column the frame
\* does not have raises KeyError
stage_reads(name) ==
    CASE name = "limits" -> {"bod1", "bod31", "cod1", "cod31"}
      [] name = "linearisation" -> {"bod1", "bod31", "cod1", "cod31"}
      [] name = "deviations" ->
            {"BODut", "BODlt", "CODut", "CODlt", "LIN_BODe", "LIN_CODe"}
      [] name = "reductions" ->
            {"LIN_BODi", "LIN_BODe", "LIN_CODi", "LIN_CODe"}
      [] name = "flags" -> DeviationColumns
      [] name = "psi" -> DeviationColumns
      [] name = "metrics" ->
            {"bod_psi_2", "cod_psi_2", "bod_psi_3", "cod_psi_3"}
      [] name = "failure_type" ->
            {"bod_psi_1", "bod_psi_2", "bod_psi_3",
             "cod_psi_1", "cod_psi_2", "cod_psi_3",
             "flag_BODlt", "flag_BODut", "flag_reduction_bod",
             "flag_CODlt", "flag_CODut", "flag_reduction_cod",
             "metric_lut", "metric_max"}

\* the call process_dataframe makes for a stage, on object i of memory h
run_stage_default_fractions(name, h, i, lim) ==
    CASE name = "limits" -> calculate_all_limits(h, i, <<lim>>)
      [] name = "linearisation" -> apply_linearisation(h, i)
      [] name = "deviations" -> calculate_deviation_columns(h, i)
      [] name = "reductions" ->
            calculate_reduction_columns(h, i, Frac(7, 10), Frac(3, 4))
      [] name \in {"flags", "psi", "metrics", "failure_type"} ->
            each_row(h, i, name)
run_stage(name, h, i, lim) ==
    CASE name = "limits" -> calculate_all_limits(h, i, <<lim>>)
      [] name = "linearisation" -> apply_linearisation(h, i)
      [] name = "deviations" -> calculate_deviation_columns(h, i)
      [] name = "reductions" ->
            calculate_reduction_columns(h, i, lim.bod_pc, lim.cod_pc)
      [] name \in {"flags", "psi", "metrics", "failure_type"} ->
            each_row(h, i, name)

\* the frames process_dataframe is called with: every frame of up to
\* MaxRows rows over the required columns, ...
RawRows ==
    [bod1 : {30, 60}, bod31 : {10, 30, 60},
     cod1 : {300}, cod31 : {100, 300},
     snh1 : {5}, snh31 : {1}]

frame_of(rs) ==
    [n |-> Len(rs),
     cols |-> [c \in REQUIRED_COLUMNS |-> [k \in 1..Len(rs) |-> Float(rs[k][c])]]]

ValidFrames ==
    {frame_of(rs) : rs \in UNION {[1..n -> RawRows] : n \in 1..MaxRows}}

\* ... one-row frames with a column process_dataframe does not use, ...
ExtraFrames ==
    {[n |-> 1, cols |-> ("time" :> <<Float(0)>>) @@ frame_of(<<r>>).cols] :
        r \in RawRows}

\* ... frames without rows or without columns, and one-row frames that
\* lack a required column
no_columns == [n |-> 0, cols |-> <<>>]

InvalidFrames ==
    {no_columns, frame_of(<<>>)} \cup
    {[n |-> 1, cols |-> [c \in REQUIRED_COLUMNS \ {x} |-> <<Float(30)>>]] :
        x \in REQUIRED_COLUMNS}

\* limits a caller passes instead of the defaults
CustomLimits ==
    {[bod_upper |-> 40, bod_lower |-> 20, cod_upper |-> 220, cod_lower |-> 150,
      bod_pc |-> Frac(1, 2), cod_pc |-> Frac(1, 2)]}

PipelineInit ==
    /\ ppc = "call"
    /\ given \in {<<>>} \cup
                 {<<f>> : f \in ValidFrames \cup ExtraFrames \cup InvalidFrames}
    /\ frames = given
    /\ limits_arg \in {<<>>} \cup {<<l>> : l \in CustomLimits}
    /\ limits = <<>>
    /\ result = 0
    /\ stages_run = <<>>
    /\ raised = ""
    /\ ClassifyIdle
    /\ RecoveryIdle
    /\ ScoreIdle
    /\ AnalysisIdle
    /\ RetryIdle

\* the default limits and the validation
ValidateInput ==
    /\ ppc = "call"
    /\ limits' = IF limits_arg = <<>> THEN ComplianceLimits ELSE limits_arg[1]
    /\ raised' = validate_dataframe(frames, REQUIRED_COLUMNS, FALSE)
    /\ ppc' = IF raised' = "" THEN "running" ELSE "raised"
    /\ UNCHANGED <<given, frames, result, limits_arg, stages_run,
                   clsVars, recVars, nsVars, anaVars, retryVars>>

\* result = <stage>(df or result)
Stage(name) ==
    /\ ppc = "running"
    /\ Len(stages_run) < Len(stage_order)
    /\ stage_order[Len(stages_run) + 1] = name
    /\ LET i == IF result = 0 THEN 1 ELSE result
       IN  IF stage_reads(name) \subseteq DOMAIN frames[i].cols
           THEN LET m == run_stage(name, live(frames, i),
                                   IF i = 1 THEN 1 ELSE 2, limits)
                IN  /\ frames' = m.frames
                    /\ result' = m.result
                    /\ stages_run' = Append(stages_run, name)
                    /\ UNCHANGED <<ppc, raised>>
           ELSE /\ ppc' = "raised"
                /\ raised' = "KeyError"
                /\ UNCHANGED <<frames, result, stages_run>>
    /\ UNCHANGED <<given, limits_arg, limits, clsVars, recVars, nsVars, anaVars, retryVars>>

Step1_Limits == Stage("limits")
Step2_Linearisation == Stage("linearisation")
Step3_Deviations == Stage("deviations")
Step4_Reductions == Stage("reductions")
Step5_FlagConditions == Stage("flags")
Step6_PsiValues == Stage("psi")
Step7_MetricValues == Stage("metrics")
Step8_DetermineFailureType == Stage("failure_type")

ReturnResult ==
    /\ ppc = "running"
    /\ Len(stages_run) = Len(stage_order)
    /\ ppc' = "returned"
    /\ UNCHANGED <<given, frames, result, limits_arg, limits, stages_run,
                   raised, clsVars, recVars, nsVars, anaVars, retryVars>>

PipelineNext ==
    \/ ValidateInput
    \/ Step1_Limits
    \/ Step2_Linearisation
    \/ Step3_Deviations
    \/ Step4_Reductions
    \/ Step5_FlagConditions
    \/ Step6_PsiValues
    \/ Step7_MetricValues
    \/ Step8_DetermineFailureType
    \/ ReturnResult

SpecPipeline == PipelineInit /\ [][PipelineNext]_vars

-----------------------------------------------------------------------------
(* core/processors.py.  A call is given by the exception it raises ("" when *)
(* it returns) and the frame it returns.                                     *)

\* the stages of process_dataframe from stage k on, on object i of memory h
RECURSIVE run_stages(_, _, _, _)
run_stages(h, i, k, lim) ==
    IF k > Len(stage_order) THEN [raised |-> "", value |-> <<h[i]>>]
    ELSE IF ~(stage_reads(stage_order[k]) \subseteq DOMAIN h[i].cols)
    THEN [raised |-> "KeyError", value |-> <<>>]
    ELSE LET m == run_stage(stage_order[k], live(h, i),
                            IF i = 1 THEN 1 ELSE 2, lim)
         IN  run_stages(m.frames, m.result, k + 1, lim)

process_dataframe(arg, limits_opt) ==
    LET lim == IF limits_opt = <<>> THEN ComplianceLimits ELSE limits_opt[1]
        err == validate_dataframe(arg, REQUIRED_COLUMNS, FALSE)
    IN  IF err # "" THEN [raised |-> err, value |-> <<>>]
        ELSE run_stages(arg, 1, 1, lim)

\* process_scenario, given the frame process_folder returns for the scenario
process_scenario(raw_df, config) ==
    IF df_empty(raw_df) THEN [raised |-> "", value |-> <<raw_df>>]
    ELSE process_dataframe(<<raw_df>>, <<config>>)

\* what process_folder can return: pd.DataFrame() for a folder that is
\* missing or holds no data, otherwise the rows of the pickle files, with
\* whatever columns the files have
FolderFrames ==
    {no_columns,
     frame_of(<<[bod1 |-> 60, bod31 |-> 10, cod1 |-> 300, cod31 |-> 100,
                 snh1 |-> 5, snh31 |-> 1]>>),
     frame_of(<<[bod1 |-> 60, bod31 |-> 10, cod1 |-> 300, cod31 |-> 100,
                 snh1 |-> 5, snh31 |-> 1],
                [bod1 |-> 30, bod31 |-> 30, cod1 |-> 300, cod31 |-> 300,
                 snh1 |-> 5, snh31 |-> 1]>>),
     [n |-> 1, cols |-> [c \in REQUIRED_COLUMNS \ {"snh1"} |-> <<Float(30)>>]]}

AnalysisInit ==
    /\ apc = "loop"
    /\ folders \in [{SCENARIOS[k] : k \in 1..Len(SCENARIOS)} -> FolderFrames]
    /\ todo = SCENARIOS
    /\ results = <<>>
    /\ escaped = ""
    /\ ClassifyIdle
    /\ RecoveryIdle
    /\ ScoreIdle
    /\ PipelineIdle
    /\ RetryIdle

\* one turn of the loop: process_scenario returns a frame that is not empty
ScenarioKept ==
    /\ apc = "loop"
    /\ todo # <<>>
    /\ LET scenario_key == Head(todo)
           out == process_scenario(folders[scenario_key], ComplianceLimits)
       IN  /\ out.raised = ""
           /\ ~df_empty(out.value[1])
           /\ results' = (scenario_key :> out.value[1]) @@ results
    /\ todo' = Tail(todo)
    /\ UNCHANGED <<apc, folders, escaped, clsVars, recVars, nsVars, pipeVars, retryVars>>

\* one turn of the loop: process_scenario returns an empty frame
ScenarioDropped ==
    /\ apc = "loop"
    /\ todo # <<>>
    /\ LET out == process_scenario(folders[Head(todo)], ComplianceLimits)
       IN  /\ out.raised = ""
           /\ df_empty(out.value[1])
    /\ todo' = Tail(todo)
    /\ UNCHANGED <<apc, folders, results, escaped,
                   clsVars, recVars, nsVars, pipeVars, retryVars>>

\* one turn of the loop: process_scenario raises; nothing in
\* run_full_analysis catches the exception
ScenarioRaised ==
    /\ apc = "loop"
    /\ todo # <<>>
    /\ LET out == process_scenario(folders[Head(todo)], ComplianceLimits)
       IN  /\ out.raised # ""
           /\ escaped' = out.raised
    /\ apc' = "raised"
    /\ UNCHANGED <<folders, todo, results, clsVars, recVars, nsVars, pipeVars, retryVars>>

ReturnResults ==
    /\ apc = "loop"
    /\ todo = <<>>
    /\ apc' = "returned"
    /\ UNCHANGED <<folders, todo, results, escaped,
                   clsVars, recVars, nsVars, pipeVars, retryVars>>

AnalysisNext ==
    \/ ScenarioKept
    \/ ScenarioDropped
    \/ ScenarioRaised
    \/ ReturnResults

SpecAnalysis == AnalysisInit /\ [][AnalysisNext]_vars

-----------------------------------------------------------------------------
(* config.py, SimulationConfig.  Times are counted in thousandths of the   *)
(* time unit, so that a time step finer than the two decimals kept by      *)
(* round(x, 2) is an integer: 0.08 day is 80.                              *)

TIME_STEP == 80
HOURS_PER_DAY == 24
MINUTES_PER_HOUR == 60

\* the time steps passed explicitly: 0.004, 0.5 and 1.0
TimeSteps == {4, 500, 1000}

-----------------------------------------------------------------------------
(* analysis/recovery.py *)

\* the values determine_failure_type gives fail_type: the default and the
\* choices of its np.select
Labels ==
    {"Compliant"} \cup {fail_type_values[i] : i \in 1..Len(fail_type_values)}

\* the default of the failure_types parameter
failure_types_lut_only == {"LUT exceedance"}
failure_types == {"Max Limit Failure", "LUT exceedance"}

\* round(x, 2) on thousandths: the closest multiple of 0.01, the even one
\* when two are equally close
round_2(m) ==
    LET q == m \div 10
        rem == m % 10
    IN  IF rem < 5 THEN q * 10
        ELSE IF rem > 5 THEN (q + 1) * 10
        ELSE IF q % 2 = 0 THEN q * 10 ELSE (q + 1) * 10

RECURSIVE SeqSum(_)
SeqSum(s) == IF s = <<>> THEN 0 ELSE Head(s) + SeqSum(Tail(s))

RECURSIVE SeqMin(_)
SeqMin(s) == IF Len(s) = 1 THEN s[1] ELSE Min2(Head(s), SeqMin(Tail(s)))

RECURSIVE SeqMax(_)
SeqMax(s) == IF Len(s) = 1 THEN s[1] ELSE Max2(Head(s), SeqMax(Tail(s)))

\* numpy.mean of a non-empty list, as the fraction sum / length
np_mean(s) == [num |-> SeqSum(s), den |-> Len(s)]

RecoveryInit ==
    /\ rpc = "call"
    /\ series \in UNION {[1..n -> Labels] : n \in 0..MaxLen}
    /\ time_step_arg \in {<<>>} \cup {<<t>> : t \in TimeSteps}
    /\ time_step = 0
    /\ pos = 0
    /\ recovery_times = <<>>
    /\ non_compliance_duration = 0
    /\ in_non_compliance = FALSE
    /\ recovery_times_minutes = <<>>
    /\ rows = <<>>
    /\ mean_recovery = <<>>
    /\ ClassifyIdle
    /\ ScoreIdle
    /\ PipelineIdle
    /\ AnalysisIdle
    /\ RetryIdle

\* compute_recovery_time: the default time step and the initial values
RecoveryEnter ==
    /\ rpc = "call"
    /\ time_step' = IF time_step_arg = <<>> THEN TIME_STEP ELSE time_step_arg[1]
    /\ recovery_times' = <<>>
    /\ non_compliance_duration' = 0
    /\ in_non_compliance' = FALSE
    /\ pos' = 1
    /\ rpc' = "loop"
    /\ UNCHANGED <<series, time_step_arg, recovery_times_minutes, rows,
                   mean_recovery, clsVars, nsVars, pipeVars, anaVars, retryVars>>

\* loop body, the value is a failure type
ScanNonCompliant ==
    /\ rpc = "loop"
    /\ pos <= Len(series)
    /\ series[pos] \in failure_types
    /\ in_non_compliance' = TRUE
    /\ non_compliance_duration' = non_compliance_duration + 1
    /\ pos' = pos + 1
    /\ UNCHANGED <<rpc, series, time_step_arg, time_step, recovery_times,
                   recovery_times_minutes, rows, mean_recovery, clsVars, nsVars, pipeVars, anaVars, retryVars>>

\* loop body, the value is not a failure type and a run is open
ScanRecovered ==
    /\ rpc = "loop"
    /\ pos <= Len(series)
    /\ series[pos] \notin failure_types
    /\ in_non_compliance
    /\ recovery_times' =
          Append(recovery_times, round_2(non_compliance_duration * time_step))
    /\ non_compliance_duration' = 0
    /\ in_non_compliance' = FALSE
    /\ pos' = pos + 1
    /\ UNCHANGED <<rpc, series, time_step_arg, time_step,
                   recovery_times_minutes, rows, mean_recovery, clsVars, nsVars, pipeVars, anaVars, retryVars>>

\* loop body, the value is not a failure type and no run is open
ScanCompliant ==
    /\ rpc = "loop"
    /\ pos <= Len(series)
    /\ series[pos] \notin failure_types
    /\ ~in_non_compliance
    /\ pos' = pos + 1
    /\ UNCHANGED <<rpc, series, time_step_arg, time_step, recovery_times,
                   non_compliance_duration, in_non_compliance,
                   recovery_times_minutes, rows, mean_recovery, clsVars, nsVars, pipeVars, anaVars, retryVars>>

\* after the loop: ongoing non-compliance at the end of the series
ScanEnd ==
    /\ rpc = "loop"
    /\ pos > Len(series)
    /\ recovery_times' =
          IF in_non_compliance
          THEN Append(recovery_times,
                      round_2(non_compliance_duration * time_step))
          ELSE recovery_times
    /\ rpc' = "returned"
    /\ UNCHANGED <<series, time_step_arg, time_step, pos,
                   non_compliance_duration, in_non_compliance,
                   recovery_times_minutes, rows, mean_recovery, clsVars, nsVars, pipeVars, anaVars, retryVars>>

\* compute_recovery_time_minutes: the conversion of the returned list
to_minutes(times) ==
    [i \in 1..Len(times) |-> times[i] * HOURS_PER_DAY * MINUTES_PER_HOUR]

ConvertToMinutes ==
    /\ rpc = "returned"
    /\ recovery_times_minutes' = to_minutes(recovery_times)
    /\ rpc' = "minutes"
    /\ UNCHANGED <<series, time_step_arg, time_step, pos, recovery_times,
                   non_compliance_duration, in_non_compliance, rows,
                   mean_recovery, clsVars, nsVars, pipeVars, anaVars, retryVars>>

\* get_recovery_analysis for a results dictionary holding one scenario whose
\* frame has series as its fail_type column ("Std Recovery (min)", a square
\* root, is not represented)
analysis_rows(s, minutes) ==
    IF s = <<>> THEN <<>>
    ELSE IF minutes # <<>>
    THEN <<[Scenario |-> "baseline",
            Mean |-> np_mean(minutes),
            Min |-> SeqMin(minutes),
            Max |-> SeqMax(minutes),
            NumEvents |-> Len(minutes)]>>
    ELSE <<>>

GetRecoveryAnalysis ==
    /\ rpc = "minutes"
    /\ rows' = analysis_rows(series, recovery_times_minutes)
    /\ rpc' = "analysed"
    /\ UNCHANGED <<series, time_step_arg, time_step, pos, recovery_times,
                   non_compliance_duration, in_non_compliance,
                   recovery_times_minutes, mean_recovery, clsVars, nsVars, pipeVars, anaVars, retryVars>>

\* compute_mean_recovery_time
mean_of(times) ==
    IF times = <<>> THEN [num |-> 0, den |-> 1] ELSE np_mean(times)

ComputeMeanRecoveryTime ==
    /\ rpc = "analysed"
    /\ \E convert_to_minutes \in BOOLEAN :
          mean_recovery' =
             <<mean_of(IF convert_to_minutes THEN recovery_times_minutes
                       ELSE recovery_times)>>
    /\ rpc' = "done"
    /\ UNCHANGED <<series, time_step_arg, time_step, pos, recovery_times,
                   non_compliance_duration, in_non_compliance,
                   recovery_times_minutes, rows, clsVars, nsVars, pipeVars, anaVars, retryVars>>

RecoveryNext ==
    \/ RecoveryEnter
    \/ ScanNonCompliant
    \/ ScanRecovered
    \/ ScanCompliant
    \/ ScanEnd
    \/ ConvertToMinutes
    \/ GetRecoveryAnalysis
    \/ ComputeMeanRecoveryTime

SpecRecovery == RecoveryInit /\ [][RecoveryNext]_vars

-----------------------------------------------------------------------------
(* pandas operations used by non_stationarity_score *)

IsNaN(x) == x.nan
NotNaN(x) == ~x.nan

\* Series.dropna()
dropna(s) == SelectSeq(s, NotNaN)

\* Series.mean(): missing values are skipped, NaN when nothing is left
pd_mean(s) ==
    LET present == dropna(s)
    IN  IF present = <<>> THEN NaN
        ELSE FDiv(FSum(present), Float(Len(present)))

\* Series.var() (ddof = 1): missing values are skipped, NaN for fewer than
\* two values
pd_var(s) ==
    LET present == dropna(s)
        n == Len(present)
        avg == FDiv(FSum(present), Float(n))
        sqr == [i \in 1..n |-> FMul(FSub(avg, present[i]), FSub(avg, present[i]))]
    IN  IF n - 1 <= 0 THEN NaN ELSE FDiv(FSum(sqr), Float(n - 1))

\* Series.rolling(window=w).var(): min_periods is the window, so a position
\* with fewer than w values before and at it, or with a missing value in its
\* window, is NaN
rolling_var_of(s, w) ==
    [i \in 1..Len(s) |->
        IF i < w THEN NaN
        ELSE LET win == SubSeq(s, i - w + 1, i)
             IN  IF Len(dropna(win)) < w THEN NaN ELSE pd_var(win)]

-----------------------------------------------------------------------------
(* analysis/nonstationarity.py *)

SeriesValues == {NaN} \cup {Float(v) : v \in 0..MaxVal}

ScoreInit ==
    /\ npc = "call"
    /\ ns_series \in UNION {[1..n -> SeriesValues] : n \in 0..MaxSeriesLen}
    /\ window \in 1..(MaxSeriesLen + 1)
    /\ clean_series = <<>>
    /\ rolling_var = <<>>
    /\ overall_var = <<>>
    /\ score = <<>>
    /\ ClassifyIdle
    /\ RecoveryIdle
    /\ PipelineIdle
    /\ AnalysisIdle
    /\ RetryIdle

\* if len(series) < window: return np.nan
too_short(s, w) == Len(s) < w

ReturnShortSeries ==
    /\ npc = "call"
    /\ too_short(ns_series, window)
    /\ score' = <<NaN>>
    /\ npc' = "returned"
    /\ UNCHANGED <<ns_series, window, clean_series, rolling_var, overall_var,
                   clsVars, recVars, pipeVars, anaVars, retryVars>>

\* clean_series = series.dropna()
DropMissing ==
    /\ npc = "call"
    /\ ~too_short(ns_series, window)
    /\ clean_series' = dropna(ns_series)
    /\ npc' = "clean"
    /\ UNCHANGED <<ns_series, window, rolling_var, overall_var, score,
                   clsVars, recVars, pipeVars, anaVars, retryVars>>

\* if len(clean_series) < window: return np.nan
clean_too_short_never(s, w) == FALSE
clean_too_short(s, w) == Len(s) < w

ReturnShortClean ==
    /\ npc = "clean"
    /\ clean_too_short(clean_series, window)
    /\ score' = <<NaN>>
    /\ npc' = "returned"
    /\ UNCHANGED <<ns_series, window, clean_series, rolling_var, overall_var,
                   clsVars, recVars, pipeVars, anaVars, retryVars>>

\* rolling_var and overall_var
ComputeVariances ==
    /\ npc = "clean"
    /\ ~clean_too_short(clean_series, window)
    /\ rolling_var' = rolling_var_of(clean_series, window)
    /\ overall_var' = <<pd_var(clean_series)>>
    /\ npc' = "variances"
    /\ UNCHANGED <<ns_series, window, clean_series, score, clsVars, recVars, pipeVars, anaVars, retryVars>>

\* if overall_var == 0: return 0.0
ReturnZeroVariance ==
    /\ npc = "variances"
    /\ FIsZero(overall_var[1])
    /\ score' = <<Float(0)>>
    /\ npc' = "returned"
    /\ UNCHANGED <<ns_series, window, clean_series, rolling_var, overall_var,
                   clsVars, recVars, pipeVars, anaVars, retryVars>>

\* score = (rolling_var - overall_var).abs().mean() / overall_var
normalised_score(rv, ov) ==
    FDiv(pd_mean([i \in 1..Len(rv) |-> FAbs(FSub(rv[i], ov))]), ov)

ReturnScore ==
    /\ npc = "variances"
    /\ ~FIsZero(overall_var[1])
    /\ score' = <<normalised_score(rolling_var, overall_var[1])>>
    /\ npc' = "returned"
    /\ UNCHANGED <<ns_series, window, clean_series, rolling_var, overall_var,
                   clsVars, recVars, pipeVars, anaVars, retryVars>>

ScoreNext ==
    \/ ReturnShortSeries
    \/ DropMissing
    \/ ReturnShortClean
    \/ ComputeVariances
    \/ ReturnZeroVariance
    \/ ReturnScore

SpecScore == ScoreInit /\ [][ScoreNext]_vars

-----------------------------------------------------------------------------
(* utils/decorators.py, retry: the wrapper around func *)

\* what an invocation of func can do: return its result, raise an exception
\* that "except Exception" catches, or raise one that it does not catch
CaughtExceptions == {"ValueError", "OSError"}

FuncOutcomes == {"result", "KeyboardInterrupt"} \cup CaughtExceptions

Delays == {0, 1, 2}

\* attempt == max_attempts - 1
is_last_attempt_late(a, n) == a = n
is_last_attempt(a, n) == a = n - 1

RetryInit ==
    /\ tpc = "loop"
    /\ max_attempts \in 0..MaxAttempts
    /\ delay \in Delays
    /\ attempt = 0
    /\ history = <<>>
    /\ slept = <<>>
    /\ outcome = <<>>
    /\ ClassifyIdle
    /\ RecoveryIdle
    /\ ScoreIdle
    /\ PipelineIdle
    /\ AnalysisIdle

\* return func(*args, **kwargs)
InvokeReturns ==
    /\ tpc = "loop"
    /\ attempt < max_attempts
    /\ history' = Append(history, "result")
    /\ outcome' = <<[kind |-> "returned", what |-> "result",
                     invocation |-> Len(history) + 1]>>
    /\ tpc' = "done"
    /\ UNCHANGED <<max_attempts, delay, attempt, slept,
                   clsVars, recVars, nsVars, pipeVars, anaVars>>

\* func raises, the exception is caught and it is not the last attempt:
\* the message is printed and the wrapper sleeps
InvokeRaisesAndRetries ==
    /\ tpc = "loop"
    /\ attempt < max_attempts
    /\ ~is_last_attempt(attempt, max_attempts)
    /\ \E e \in CaughtExceptions : history' = Append(history, e)
    /\ slept' = Append(slept, delay)
    /\ attempt' = attempt + 1
    /\ UNCHANGED <<tpc, max_attempts, delay, outcome,
                   clsVars, recVars, nsVars, pipeVars, anaVars>>

\* func raises, the exception is caught and it is the last attempt: raise
InvokeRaisesLast ==
    /\ tpc = "loop"
    /\ attempt < max_attempts
    /\ is_last_attempt(attempt, max_attempts)
    /\ \E e \in CaughtExceptions :
          /\ history' = Append(history, e)
          /\ outcome' = <<[kind |-> "raised", what |-> e,
                           invocation |-> Len(history) + 1]>>
    /\ tpc' = "done"
    /\ UNCHANGED <<max_attempts, delay, attempt, slept,
                   clsVars, recVars, nsVars, pipeVars, anaVars>>

\* func raises an exception that is not an Exception: it is not caught
InvokeRaisesUncaught ==
    /\ tpc = "loop"
    /\ attempt < max_attempts
    /\ history' = Append(history, "KeyboardInterrupt")
    /\ outcome' = <<[kind |-> "raised", what |-> "KeyboardInterrupt",
                     invocation |-> Len(history) + 1]>>
    /\ tpc' = "done"
    /\ UNCHANGED <<max_attempts, delay, attempt, slept,
                   clsVars, recVars, nsVars, pipeVars, anaVars>>

\* the loop ends without a return: the wrapper returns None
LoopEnds ==
    /\ tpc = "loop"
    /\ attempt >= max_attempts
    /\ outcome' = <<[kind |-> "returned", what |-> "None", invocation |-> 0]>>
    /\ tpc' = "done"
    /\ UNCHANGED <<max_attempts, delay, attempt, history, slept,
                   clsVars, recVars, nsVars, pipeVars, anaVars>>

RetryNext ==
    \/ InvokeReturns
    \/ InvokeRaisesAndRetries
    \/ InvokeRaisesLast
    \/ InvokeRaisesUncaught
    \/ LoopEnds

SpecRetry == RetryInit /\ [][RetryNext]_vars

-----------------------------------------------------------------------------
(* Properties of the failure classifier (SpecClassify) *)

Classified == pc = "classified"

\* the row-level combinations of section 4.4, read from the stored columns
any_lut == df["bod_lut_exc"] \/ df["cod_lut_exc"]
any_max == df["bod_max_lim"] \/ df["cod_max_lim"]

\* C1: in every classified row fail_type is one of Compliant, LUT
\* exceedance, Max Limit Failure, fail_source is one of BOD, COD, None, and
\* fail_source is None exactly when fail_type is Compliant.
C1_ClassificationExhaustive ==
    Classified =>
        /\ df["fail_type"] \in {"Compliant", "LUT exceedance", "Max Limit Failure"}
        /\ df["fail_source"] \in {"BOD", "COD", "None"}
        /\ (df["fail_source"] = "None") <=> (df["fail_type"] = "Compliant")

\* a row that only the COD max-limit predicate fails
C1_Witness ==
    /\ Classified
    /\ df["fail_type"] = "Max Limit Failure"
    /\ df["fail_source"] = "COD"
    /\ ~df["bod_lut_exc"] /\ ~df["bod_max_lim"] /\ ~df["cod_lut_exc"]

\* C2: if any_max is true the row is Max Limit Failure whatever any_lut is;
\* if any_lut is true and any_max false it is LUT exceedance; otherwise it
\* is Compliant.
C2_MaxLimitPrecedence ==
    Classified =>
        df["fail_type"] =
            IF any_max THEN "Max Limit Failure"
            ELSE IF any_lut THEN "LUT exceedance"
            ELSE "Compliant"

\* C3: fail_type is the first match in the order lut_exceedance_BOD,
\* max_limit_fail_BOD, lut_exceedance_COD, max_limit_fail_COD, else
\* Compliant; fail_source is BOD if a BOD predicate fired, otherwise COD if
\* a COD predicate fired, otherwise None.
C3_FirstMatchOrder ==
    Classified =>
        /\ df["fail_type"] =
              CASE df["bod_lut_exc"] -> "LUT exceedance"
                [] ~df["bod_lut_exc"] /\ df["bod_max_lim"] -> "Max Limit Failure"
                [] ~df["bod_lut_exc"] /\ ~df["bod_max_lim"] /\ df["cod_lut_exc"]
                      -> "LUT exceedance"
                [] ~df["bod_lut_exc"] /\ ~df["bod_max_lim"] /\ ~df["cod_lut_exc"]
                      /\ df["cod_max_lim"] -> "Max Limit Failure"
                [] OTHER -> "Compliant"
        /\ (df["bod_lut_exc"] \/ df["bod_max_lim"]) => df["fail_source"] = "BOD"
        /\ (~(df["bod_lut_exc"] \/ df["bod_max_lim"])
               /\ (df["cod_lut_exc"] \/ df["cod_max_lim"]))
              => df["fail_source"] = "COD"
        /\ (~(df["bod_lut_exc"] \/ df["bod_max_lim"])
               /\ ~(df["cod_lut_exc"] \/ df["cod_max_lim"]))
              => df["fail_source"] = "None"

\* a row where the BOD LUT predicate and the COD max-limit predicate both
\* fire: BOD, first in the order, decides
C3_Witness ==
    /\ Classified
    /\ df["bod_lut_exc"] /\ df["cod_max_lim"]
    /\ df["fail_type"] = "LUT exceedance"
    /\ df["fail_source"] = "BOD"

\* C4: the selected metric is min(psi2_BOD, psi2_COD) when any_lut and not
\* any_max, min(psi3_BOD, psi3_COD) when any_lut and any_max, and the
\* fallback max(psi1_BOD, psi1_COD) in every other case.
C4_MetricSelection ==
    Classified =>
        df["metric"] =
            IF any_lut /\ ~any_max
            THEN FMin2(df["bod_psi_2"], df["cod_psi_2"])
            ELSE IF any_lut /\ any_max
            THEN FMin2(df["bod_psi_3"], df["cod_psi_3"])
            ELSE FMax2(df["bod_psi_1"], df["cod_psi_1"])

\* a row with a max-limit failure and no LUT exceedance, whose fallback
\* differs from its max-limit metric
C4_Witness ==
    /\ Classified
    /\ any_max /\ ~any_lut
    /\ df["metric"] = FMax2(df["bod_psi_1"], df["cod_psi_1"])
    /\ df["metric"] # df["metric_max"]

\* C5: the branch that selects the metric agrees with fail_type: the LUT
\* metric exactly on rows typed LUT exceedance, the max-limit metric exactly
\* on rows typed Max Limit Failure, the fallback exactly on Compliant rows.
C5_MetricBranchMatchesFailType ==
    Classified =>
        /\ cond_lut(df) <=> (df["fail_type"] = "LUT exceedance")
        /\ cond_max(df) <=> (df["fail_type"] = "Max Limit Failure")
        /\ (~cond_lut(df) /\ ~cond_max(df)) <=> (df["fail_type"] = "Compliant")

\* C6: a row in which lut_exceedance_BOD and max_limit_fail_BOD are both
\* true is classified Max Limit Failure.
C6_SamePollutantPrecedence ==
    (Classified /\ df["bod_lut_exc"] /\ df["bod_max_lim"])
        => df["fail_type"] = "Max Limit Failure"

\* the case C6 is about: both BOD predicates true in one row
C6_BothBodPredicates ==
    Classified /\ df["bod_lut_exc"] /\ df["bod_max_lim"]


\* C24: for each pollutant the LUT-exceedance predicate and the max-limit
\* predicate of a row are never both true, whatever the deviations and the
\* reduction score: at most one BOD predicate and at most one COD predicate
\* fires.
C24_PredicatesExclusive ==
    Classified =>
        /\ ~(df["bod_lut_exc"] /\ df["bod_max_lim"])
        /\ ~(df["cod_lut_exc"] /\ df["cod_max_lim"])
        /\ ~(bod_lut_exc(df) /\ bod_max_lim(df))
        /\ ~(cod_lut_exc(df) /\ cod_max_lim(df))

\* a classified row in which one BOD predicate and one COD predicate fire,
\* with a negative reduction score and a negative lower deviation for both
C24_Witness ==
    /\ Classified
    /\ df["bod_max_lim"]
    /\ df["cod_lut_exc"]
    /\ FLt(df["bodp"], Float(0))
    /\ FLt(df["BODlt-BODeffl"], Float(0))
    /\ FLt(df["codp"], Float(0))


\* the psi columns have been computed
PsiComputed == pc \in {"psi", "metrics", "classified"}

\* C26: in every row bod_psi_1 = max(lower deviation, min(lower deviation,
\* reduction)) is the lower deviation, whatever the reduction score, and
\* likewise for COD; so the fallback metric max(bod_psi_1, cod_psi_1) is the
\* larger of the two lower deviations and does not depend on the reduction
\* scores.
C26_Psi1IsLowerDeviation ==
    /\ PsiComputed =>
          /\ df["bod_psi_1"] = df["BODlt-BODeffl"]
          /\ df["cod_psi_1"] = df["CODlt-CODeffl"]
          /\ default_val(df) = FMax2(df["BODlt-BODeffl"], df["CODlt-CODeffl"])
    /\ (Classified /\ ~cond_lut(df) /\ ~cond_max(df)) =>
          df["metric"] = FMax2(df["BODlt-BODeffl"], df["CODlt-CODeffl"])

\* a classified row that took the fallback metric although both reduction
\* scores are below the lower deviations
C26_Witness ==
    /\ Classified
    /\ ~cond_lut(df)
    /\ ~cond_max(df)
    /\ FLt(df["bodp"], df["BODlt-BODeffl"])
    /\ FLt(df["codp"], df["CODlt-CODeffl"])
    /\ df["bod_psi_1_min"] # df["bod_psi_1"]
    /\ df["metric"] = df["CODlt-CODeffl"]
    /\ df["metric"] # df["BODlt-BODeffl"]


\* the stored predicate of a pollutant for a category
Fired(source, type) ==
    CASE source = "BOD" /\ type = "LUT exceedance" -> df["bod_lut_exc"]
      [] source = "BOD" /\ type = "Max Limit Failure" -> df["bod_max_lim"]
      [] source = "COD" /\ type = "LUT exceedance" -> df["cod_lut_exc"]
      [] source = "COD" /\ type = "Max Limit Failure" -> df["cod_max_lim"]
      [] OTHER -> FALSE

\* C29: in every row whose fail_type is not Compliant, the pollutant named
\* by fail_source has fired the predicate of the category fail_type names,
\* and not its predicate of the other category; when a BOD predicate and a
\* COD predicate fire in the same row, BOD gives both fail_type and
\* fail_source.
C29_SourceMatchesType ==
    (Classified /\ df["fail_type"] # "Compliant") =>
        /\ df["fail_source"] \in {"BOD", "COD"}
        /\ \A type \in {"LUT exceedance", "Max Limit Failure"} :
              Fired(df["fail_source"], type) <=> (df["fail_type"] = type)
        /\ ((df["bod_lut_exc"] \/ df["bod_max_lim"])
               /\ (df["cod_lut_exc"] \/ df["cod_max_lim"]))
              => /\ df["fail_source"] = "BOD"
                 /\ Fired("BOD", df["fail_type"])

\* a row in which BOD exceeds the lower threshold only and COD fails the
\* upper limit: the categories conflict and BOD gives both columns
C29_Witness ==
    /\ Classified
    /\ df["bod_lut_exc"]
    /\ df["cod_max_lim"]
    /\ df["fail_type"] = "LUT exceedance"
    /\ df["fail_source"] = "BOD"

\* a row in which only a COD predicate fires
CodAloneFails ==
    /\ Classified
    /\ df["cod_max_lim"]
    /\ df["fail_source"] = "COD"
    /\ df["fail_type"] = "Max Limit Failure"

-----------------------------------------------------------------------------
(* Properties of the recovery-time analyzer (SpecRecovery) *)

Scanned == rpc \in {"returned", "minutes", "analysed", "done"}

NonCompliantAt(s, i) == s[i] \in failure_types

\* the positions where a maximal run of non-compliant values ends
RunEnds(s) ==
    {i \in 1..Len(s) :
        NonCompliantAt(s, i) /\ (i = Len(s) \/ ~NonCompliantAt(s, i + 1))}

\* the position where the maximal run ending at e starts
RunStart(s, e) ==
    CHOOSE j \in 1..e :
        /\ \A k \in j..e : NonCompliantAt(s, k)
        /\ j = 1 \/ ~NonCompliantAt(s, j - 1)

RECURSIVE Ascending(_)
Ascending(S) ==
    IF S = {} THEN <<>>
    ELSE LET m == CHOOSE x \in S : \A y \in S : x <= y
         IN  <<m>> \o Ascending(S \ {m})

\* the lengths of the maximal non-compliant runs, in order of occurrence
RunLengths(s) ==
    LET ends == Ascending(RunEnds(s))
    IN  [k \in 1..Len(ends) |-> ends[k] - RunStart(s, ends[k]) + 1]

\* C7: compute_recovery_time returns one sample per maximal run of
\* non-compliant values, in order of occurrence, each equal to the run's
\* length times the time step (an open run at the end included).
C7_OneSamplePerRun ==
    Scanned =>
        recovery_times =
            [k \in 1..Len(RunLengths(series)) |->
                RunLengths(series)[k] * time_step]

\* what the scan returns: each sample is the run's length times the time
\* step, rounded to two decimals
RecoveryTimesAreRoundedRuns ==
    Scanned =>
        recovery_times =
            [k \in 1..Len(RunLengths(series)) |->
                round_2(RunLengths(series)[k] * time_step)]

AllCompliant(s) == \A i \in 1..Len(s) : s[i] = "Compliant"

\* C8: for an all-Compliant series compute_recovery_time returns the empty
\* list, compute_mean_recovery_time returns 0.0, and the recovery analysis
\* reports the scenario with an event count of 0 (the analysis is given the
\* frames run_full_analysis keeps, which are not empty).
C8_AllCompliantSeries ==
    (rpc = "done" /\ AllCompliant(series)) =>
        /\ recovery_times = <<>>
        /\ mean_recovery = <<[num |-> 0, den |-> 1]>>
        /\ series # <<>> => (Len(rows) = 1 /\ rows[1].NumEvents = 0)

\* the part of C8 about the two functions alone
AllCompliantGivesNoSamples ==
    (rpc = "done" /\ AllCompliant(series)) =>
        /\ recovery_times = <<>>
        /\ mean_recovery = <<[num |-> 0, den |-> 1]>>

EpisodeEnds(s) ==
    {i \in 1..Len(s) :
        s[i] # "Compliant" /\ (i = Len(s) \/ s[i + 1] = "Compliant")}

\* every function returns one value per run of values other than Compliant
SamplesPerEpisode ==
    /\ Scanned => Len(recovery_times) = Cardinality(EpisodeEnds(series))
    /\ rpc \in {"minutes", "analysed", "done"} =>
          Len(recovery_times_minutes) = Cardinality(EpisodeEnds(series))
    /\ rpc = "done" =>
          (EpisodeEnds(series) = {} => mean_recovery = <<[num |-> 0, den |-> 1]>>)

\* C30: with its default failure_types compute_recovery_time counts a row
\* as non-compliant exactly when its value, any value determine_failure_type
\* can give fail_type, is not Compliant; compute_recovery_time_minutes and
\* compute_mean_recovery_time work on the same count.
C30_LabelsAgree ==
    [][/\ (rpc = "loop" /\ pos <= Len(series)) =>
             /\ (non_compliance_duration' = non_compliance_duration + 1)
                   <=> (series[pos] # "Compliant")
             /\ in_non_compliance' <=> (series[pos] # "Compliant")
       /\ SamplesPerEpisode']_vars

\* the scan has counted a LUT exceedance and a Max Limit Failure as one run
\* and has closed it at a Compliant row
C30_Witness ==
    /\ rpc = "loop"
    /\ pos = 4
    /\ series[1] = "LUT exceedance"
    /\ series[2] = "Max Limit Failure"
    /\ series[3] = "Compliant"
    /\ recovery_times = <<round_2(2 * time_step)>>
    /\ ~in_non_compliance

-----------------------------------------------------------------------------
(* Properties of the non-stationarity scorer (SpecScore) *)

\* C9: non_stationarity_score returns NaN whenever the series has fewer
\* elements than the window, also when fewer than window elements remain
\* after the missing values are dropped.
C9_ShortSeriesIsNaN ==
    (npc = "returned"
        /\ (Len(ns_series) < window \/ Len(dropna(ns_series)) < window))
        => score = <<NaN>>

\* a series as long as the window that is too short once its missing values
\* are dropped
C9_Witness ==
    /\ npc = "returned"
    /\ Len(ns_series) >= window
    /\ Len(dropna(ns_series)) < window
    /\ score = <<NaN>>

\* all values present and equal
ConstantSeries(s) ==
    /\ \A i \in 1..Len(s) : ~IsNaN(s[i])
    /\ \A i, j \in 1..Len(s) : s[i] = s[j]

\* C10: for a constant series and a window W with 1 <= W <= len(series)
\* non_stationarity_score returns exactly 0.0.
C10_ConstantSeriesScoresZero ==
    (npc = "returned" /\ ConstantSeries(ns_series)
        /\ 1 <= window /\ window <= Len(ns_series))
        => score = <<Float(0)>>

\* a constant series of two or more values scores 0.0
ConstantSeriesOfTwoScoresZero ==
    (npc = "returned" /\ ConstantSeries(ns_series) /\ Len(ns_series) >= 2
        /\ 1 <= window /\ window <= Len(ns_series))
        => score = <<Float(0)>>

-----------------------------------------------------------------------------
(* Properties of process_dataframe on a whole frame (SpecPipeline) *)

\* the limit and normalised-concentration columns of steps 1 and 2
NormalisedColumns ==
    {"BODut", "BODlt", "CODut", "CODlt",
     "LIN_BODe", "LIN_BODi", "LIN_CODe", "LIN_CODi"}

Finite(x) == ~x.nan /\ x.den # 0

\* the frame passed validation
Validated == ppc \in {"running", "returned"}

\* max(influent) == min(effluent) in the frame the caller passed
ZeroRange(infl, effl) ==
    series_max(given[1].cols[infl]) = series_min(given[1].cols[effl])

\* C11: when max(influent) == min(effluent) for a pollutant, the limit or
\* linearisation stage raises an error: process_dataframe does not return,
\* and no frame holds an infinite or NaN limit or normalised value.
C11_ZeroDivisionRaises ==
    (Validated /\ (ZeroRange("bod1", "bod31") \/ ZeroRange("cod1", "cod31")))
        => /\ ppc # "returned"
           /\ \A i \in 1..Len(frames) :
                \A c \in NormalisedColumns \cap DOMAIN frames[i].cols :
                    \A k \in 1..frames[i].n : Finite(frames[i].cols[c][k])

\* the argument is a frame with rows, with columns, and with every
\* required column
GivenValid ==
    /\ given # <<>>
    /\ given[1].n > 0
    /\ {"bod1", "cod1", "bod31", "cod31", "snh1", "snh31"}
          \subseteq DOMAIN given[1].cols

\* C12: process_dataframe raises DataValidationError, before any stage has
\* run and with its argument untouched, when the frame is None, is empty or
\* lacks a required column; a non-empty frame with every required column
\* never fails validation.
C12_ValidationFirst ==
    /\ (ppc # "call" /\ ~GivenValid) =>
          /\ ppc = "raised"
          /\ raised = "DataValidationError"
          /\ stages_run = <<>>
          /\ result = 0
          /\ frames = given
    /\ GivenValid => raised # "DataValidationError"

\* a frame with every required column and no rows has been rejected
C12_Witness ==
    /\ ppc = "raised"
    /\ raised = "DataValidationError"
    /\ given # <<>>
    /\ given[1].n = 0
    /\ DOMAIN given[1].cols # {}

\* the frame the stage that returned last was called with, and the frame it
\* returned
LastArg == frames[IF Len(stages_run) = 1 THEN 1 ELSE 2]
LastOut == frames[result]

\* C15: every stage, and process_dataframe as a whole, returns a new frame
\* and leaves the frame it was passed unchanged (same columns, same values);
\* the limits are not modified.
C15_StagesCopy ==
    [][(stages_run' # stages_run) =>
          LET arg == IF result = 0 THEN 1 ELSE 2
          IN  /\ frames'[arg] = frames[IF result = 0 THEN 1 ELSE result]
              /\ result' # arg
              /\ result' # 1
              /\ frames'[1] = given[1]
              /\ limits' = limits
              /\ limits_arg' = limits_arg]_vars

\* process_dataframe has returned a classified frame that is not the object
\* of the caller
C15_Witness ==
    /\ ppc = "returned"
    /\ result > 1
    /\ "fail_type" \in DOMAIN frames[result].cols
    /\ "fail_type" \notin DOMAIN frames[1].cols

\* the value of a limit or normalised column is |x - lo| / |hi - lo|, said
\* without a division
IsNormalised(v, x, lo, hi) ==
    FMul(v, FAbs(FSub(hi, lo))) = FAbs(FSub(x, lo))

\* C17: for each pollutant the anchors min(effluent) and max(influent) are
\* the same two values for every row and in both stages: the limits are
\* constant across the rows and share the divisor of the normalised
\* concentrations.
C17_SharedAnchors ==
    (Validated /\ Len(stages_run) >= 2) =>
        LET f == frames[result]
            raw == given[1].cols
            SameAnchors(infl, effl, ut, upper, lt, lower, lin_e, lin_i) ==
                LET lo == series_min(raw[effl])
                    hi == series_max(raw[infl])
                IN  (lo # hi) =>
                    \A k \in 1..f.n :
                        /\ f.cols[ut][k] = f.cols[ut][1]
                        /\ f.cols[lt][k] = f.cols[lt][1]
                        /\ IsNormalised(f.cols[ut][k], Float(upper), lo, hi)
                        /\ IsNormalised(f.cols[lt][k], Float(lower), lo, hi)
                        /\ IsNormalised(f.cols[lin_e][k], raw[effl][k], lo, hi)
                        /\ IsNormalised(f.cols[lin_i][k], raw[infl][k], lo, hi)
        IN  /\ SameAnchors("bod1", "bod31", "BODut", limits.bod_upper,
                           "BODlt", limits.bod_lower, "LIN_BODe", "LIN_BODi")
            /\ SameAnchors("cod1", "cod31", "CODut", limits.cod_upper,
                           "CODlt", limits.cod_lower, "LIN_CODe", "LIN_CODi")

\* a linearised frame of two rows with different effluents and a divisor
\* that is not zero, for both pollutants
C17_Witness ==
    /\ Validated
    /\ Len(stages_run) >= 2
    /\ given[1].n = 2
    /\ ~ZeroRange("bod1", "bod31")
    /\ ~ZeroRange("cod1", "cod31")
    /\ given[1].cols["bod31"][1] # given[1].cols["bod31"][2]
    /\ given[1].cols["cod31"][1] # given[1].cols["cod31"][2]
    /\ frames[result].cols["LIN_BODe"][1] # frames[result].cols["LIN_BODe"][2]

\* the columns a stage adds
stage_adds(name) ==
    CASE name = "limits" -> {"BODut", "BODlt", "CODut", "CODlt"}
      [] name = "linearisation" ->
            {"LIN_BODe", "LIN_BODi", "LIN_CODe", "LIN_CODi"}
      [] name = "deviations" ->
            {"BODut-BODeffl", "CODut-CODeffl", "BODlt-BODeffl", "CODlt-CODeffl"}
      [] name = "reductions" -> {"bodp", "codp"}
      [] name = "flags" ->
            {"flag_BODlt", "flag_BODut", "flag_CODlt", "flag_CODut",
             "flag_reduction_bod", "flag_reduction_cod"}
      [] name = "psi" ->
            {"bod_psi_1_min", "bod_psi_1", "bod_psi_2", "bod_psi_3",
             "cod_psi_1_min", "cod_psi_1", "cod_psi_2", "cod_psi_3"}
      [] name = "metrics" -> {"metric_lut", "metric_max"}
      [] name = "failure_type" ->
            {"metric", "fail_type", "fail_source", "bod_lut_exc",
             "bod_max_lim", "cod_lut_exc", "cod_max_lim", "c_BOD_2", "c_BOD_3"}

\* C18: the stages run in the order limits, linearisation, deviations,
\* reductions, flags, PSI values, metric values, failure classification;
\* a stage reads only raw columns and columns a stage that has returned
\* wrote (no read fails); fail_type and fail_source are written only when
\* every flag and PSI column exists.
C18_StageOrder ==
    /\ raised # "KeyError"
    /\ \E k \in 0..8 :
          stages_run = SubSeq(<<"limits", "linearisation", "deviations",
                                "reductions", "flags", "psi", "metrics",
                                "failure_type">>, 1, k)
    /\ \A k \in 1..Len(stages_run) :
          stage_reads(stages_run[k]) \subseteq
              DOMAIN given[1].cols \cup
              UNION {stage_adds(stages_run[j]) : j \in 1..(k - 1)}
    /\ (result # 0 /\ {"fail_type", "fail_source"} \cap DOMAIN frames[result].cols # {})
          => stage_adds("flags") \cup stage_adds("psi")
                \subseteq DOMAIN frames[result].cols

\* all eight stages have run and the frame is classified
C18_Witness ==
    /\ ppc = "returned"
    /\ Len(stages_run) = 8
    /\ {"fail_type", "fail_source"} \subseteq DOMAIN frames[result].cols

\* C19: the output of every stage has all the columns of its input plus
\* the columns the stage adds, as many rows as its input in the same
\* order, and the values of the raw columns unchanged.
C19_StagePreservesFrame ==
    (Validated /\ stages_run # <<>>) =>
        /\ DOMAIN LastOut.cols =
              DOMAIN LastArg.cols \cup stage_adds(stages_run[Len(stages_run)])
        /\ LastOut.n = LastArg.n
        /\ \A c \in DOMAIN LastOut.cols : Len(LastOut.cols[c]) = LastArg.n
        /\ \A c \in DOMAIN given[1].cols : LastOut.cols[c] = given[1].cols[c]

\* a stage has returned a frame of two different rows that has a column
\* process_dataframe does not know
C19_Witness ==
    /\ Validated
    /\ Len(stages_run) = 5
    /\ LastOut.n = 2
    /\ LastOut.cols["bod31"][1] # LastOut.cols["bod31"][2]
    /\ "flag_BODlt" \in DOMAIN LastOut.cols

\* a stage has returned a frame that carries a column process_dataframe
\* does not use
ExtraColumnCarried ==
    /\ ppc = "returned"
    /\ "time" \in DOMAIN frames[result].cols

\* every normalised concentration of the pollutant is in [0, 1]
InUnitInterval(lin_e, lin_i) ==
    \A k \in 1..frames[result].n :
        /\ FLe(Float(0), frames[result].cols[lin_e][k])
        /\ FLe(frames[result].cols[lin_e][k], Float(1))
        /\ FLe(Float(0), frames[result].cols[lin_i][k])
        /\ FLe(frames[result].cols[lin_i][k], Float(1))

\* no effluent of the frame is above max(influent) and no influent is below
\* min(effluent)
WithinAnchors(infl, effl) ==
    \A k \in 1..given[1].n :
        /\ FLe(given[1].cols[effl][k], series_max(given[1].cols[infl]))
        /\ FLe(series_min(given[1].cols[effl]), given[1].cols[infl][k])

\* C20, as claimed: for every frame with max(influent) # min(effluent) for
\* a pollutant, every normalised influent and effluent lies in [0, 1].
C20_NormalisedInUnitInterval ==
    (Validated /\ Len(stages_run) >= 2) =>
        /\ ~ZeroRange("bod1", "bod31") => InUnitInterval("LIN_BODe", "LIN_BODi")
        /\ ~ZeroRange("cod1", "cod31") => InUnitInterval("LIN_CODe", "LIN_CODi")

\* C20, amended: for every frame with max(influent) # min(effluent) for a
\* pollutant in which no effluent is above max(influent) and no influent is
\* below min(effluent), every normalised influent and effluent lies in
\* [0, 1].
C20_NormalisedInUnitIntervalWithinAnchors ==
    (Validated /\ Len(stages_run) >= 2) =>
        /\ (~ZeroRange("bod1", "bod31") /\ WithinAnchors("bod1", "bod31"))
              => InUnitInterval("LIN_BODe", "LIN_BODi")
        /\ (~ZeroRange("cod1", "cod31") /\ WithinAnchors("cod1", "cod31"))
              => InUnitInterval("LIN_CODe", "LIN_CODi")

\* a linearised frame within its anchors with a normalised effluent
\* strictly between 0 and 1
C20_Witness ==
    /\ Validated
    /\ Len(stages_run) >= 2
    /\ ~ZeroRange("bod1", "bod31")
    /\ WithinAnchors("bod1", "bod31")
    /\ \E k \in 1..frames[result].n :
          /\ FLt(Float(0), frames[result].cols["LIN_BODe"][k])
          /\ FLt(frames[result].cols["LIN_BODe"][k], Float(1))

\* C21: without limits, calculate_all_limits and process_dataframe give
\* the result they give for the limits 50, 25, 250, 125, 0.7, 0.75; the
\* reduction stage of process_dataframe uses the fractions of the limits it
\* was given, not its own defaults.
C21_DefaultLimits ==
    (ppc = "returned" /\ ~ZeroRange("bod1", "bod31")
                      /\ ~ZeroRange("cod1", "cod31")) =>
        LET f == frames[result].cols
            raw == given[1].cols
            bod_lo == series_min(raw["bod31"])
            bod_hi == series_max(raw["bod1"])
            cod_lo == series_min(raw["cod31"])
            cod_hi == series_max(raw["cod1"])
            \* column = (1 - fraction) * LIN_i - LIN_e
            Reduced(col, frac, lin_i, lin_e) ==
                \A k \in 1..given[1].n :
                    FAdd(f[col][k], f[lin_e][k]) =
                        FMul(FSub(Float(1), frac), f[lin_i][k])
        IN  /\ limits_arg = <<>> =>
                /\ \A k \in 1..given[1].n :
                      /\ IsNormalised(f["BODut"][k], Float(50), bod_lo, bod_hi)
                      /\ IsNormalised(f["BODlt"][k], Float(25), bod_lo, bod_hi)
                      /\ IsNormalised(f["CODut"][k], Float(250), cod_lo, cod_hi)
                      /\ IsNormalised(f["CODlt"][k], Float(125), cod_lo, cod_hi)
                /\ Reduced("bodp", Frac(7, 10), "LIN_BODi", "LIN_BODe")
                /\ Reduced("codp", Frac(3, 4), "LIN_CODi", "LIN_CODe")
                /\ calculate_all_limits(given, 1, <<>>) =
                      calculate_all_limits(given, 1,
                          <<[bod_upper |-> 50, bod_lower |-> 25,
                             cod_upper |-> 250, cod_lower |-> 125,
                             bod_pc |-> Frac(7, 10), cod_pc |-> Frac(3, 4)]>>)
            /\ limits_arg # <<>> =>
                /\ Reduced("bodp", limits_arg[1].bod_pc, "LIN_BODi", "LIN_BODe")
                /\ Reduced("codp", limits_arg[1].cod_pc, "LIN_CODi", "LIN_CODe")

\* process_dataframe has returned for limits the caller passed, whose
\* fractions are not the defaults, on a frame with a normalised influent
\* that is not zero
C21_Witness ==
    /\ ppc = "returned"
    /\ ~ZeroRange("bod1", "bod31")
    /\ ~ZeroRange("cod1", "cod31")
    /\ limits_arg # <<>>
    /\ limits_arg[1].bod_pc # Frac(7, 10)
    /\ ~FIsZero(frames[result].cols["LIN_BODi"][1])

\* process_dataframe has returned for limits None
DefaultLimitsUsed ==
    /\ ppc = "returned"
    /\ limits_arg = <<>>
    /\ limits = ComplianceLimits
    /\ ~ZeroRange("bod1", "bod31")
    /\ ~ZeroRange("cod1", "cod31")


\* the flags alone: lower and reduction false with upper true, and all
\* three false
FlagsSayLut(r, lt, red, ut) == ~r[lt] /\ ~r[red] /\ r[ut]
FlagsSayMax(r, lt, red, ut) == ~r[lt] /\ ~r[red] /\ ~r[ut]

PsiComparisonsRedundant(r) ==
    /\ r["bod_lut_exc"] <=> FlagsSayLut(r, "flag_BODlt", "flag_reduction_bod", "flag_BODut")
    /\ r["bod_max_lim"] <=> FlagsSayMax(r, "flag_BODlt", "flag_reduction_bod", "flag_BODut")
    /\ r["cod_lut_exc"] <=> FlagsSayLut(r, "flag_CODlt", "flag_reduction_cod", "flag_CODut")
    /\ r["cod_max_lim"] <=> FlagsSayMax(r, "flag_CODlt", "flag_reduction_cod", "flag_CODut")

\* C25: in every row process_dataframe returns, the PSI comparisons of the
\* failure predicates change nothing: the LUT-exceedance predicate holds
\* exactly when the lower and reduction flags are false and the upper flag
\* is true, the max-limit predicate exactly when all three flags are false.
C25_PsiComparisonsRedundant ==
    ppc = "returned" =>
        \A k \in 1..frames[result].n :
            PsiComparisonsRedundant(row(frames[result], k))

\* the same for the frames in which max(influent) # min(effluent) for both
\* pollutants
PsiComparisonsRedundantOffZeroRange ==
    (ppc = "returned" /\ ~ZeroRange("bod1", "bod31")
                      /\ ~ZeroRange("cod1", "cod31")) =>
        \A k \in 1..frames[result].n :
            PsiComparisonsRedundant(row(frames[result], k))


\* max(influent) > min(effluent) in the frame the caller passed
PositiveRange(infl, effl) ==
    FLt(series_min(given[1].cols[effl]), series_max(given[1].cols[infl]))

\* in every returned row the flag is true exactly when the raw effluent is
\* at most the limit
FlagIsRawComparison(flag, effl, limit) ==
    \A k \in 1..frames[result].n :
        frames[result].cols[flag][k] <=> FLe(given[1].cols[effl][k], Float(limit))

\* the limit is not below min(effluent)
LimitAboveFloor(effl, limit) ==
    FLe(series_min(given[1].cols[effl]), Float(limit))

\* C27, as claimed: for every frame with max(influent) > min(effluent) for
\* a pollutant, the upper flag of a row is true exactly when its raw
\* effluent is <= the upper limit and the lower flag exactly when it is <=
\* the lower limit.
C27_FlagsAreRawComparisons ==
    ppc = "returned" =>
        /\ PositiveRange("bod1", "bod31") =>
              /\ FlagIsRawComparison("flag_BODut", "bod31", limits.bod_upper)
              /\ FlagIsRawComparison("flag_BODlt", "bod31", limits.bod_lower)
        /\ PositiveRange("cod1", "cod31") =>
              /\ FlagIsRawComparison("flag_CODut", "cod31", limits.cod_upper)
              /\ FlagIsRawComparison("flag_CODlt", "cod31", limits.cod_lower)

\* C27, amended: for every frame with max(influent) > min(effluent) for a
\* pollutant, a flag of a row is true exactly when the row's raw effluent is
\* <= the limit of the flag, provided that limit is not below min(effluent).
C27_FlagsAreRawComparisonsAboveFloor ==
    ppc = "returned" =>
        /\ PositiveRange("bod1", "bod31") =>
              /\ LimitAboveFloor("bod31", limits.bod_upper) =>
                    FlagIsRawComparison("flag_BODut", "bod31", limits.bod_upper)
              /\ LimitAboveFloor("bod31", limits.bod_lower) =>
                    FlagIsRawComparison("flag_BODlt", "bod31", limits.bod_lower)
        /\ PositiveRange("cod1", "cod31") =>
              /\ LimitAboveFloor("cod31", limits.cod_upper) =>
                    FlagIsRawComparison("flag_CODut", "cod31", limits.cod_upper)
              /\ LimitAboveFloor("cod31", limits.cod_lower) =>
                    FlagIsRawComparison("flag_CODlt", "cod31", limits.cod_lower)

\* a returned frame with a positive BOD range and both BOD limits above
\* min(effluent) that has a row below both limits and a row above both
C27_Witness ==
    /\ ppc = "returned"
    /\ PositiveRange("bod1", "bod31")
    /\ LimitAboveFloor("bod31", limits.bod_lower)
    /\ LimitAboveFloor("bod31", limits.bod_upper)
    /\ frames[result].n = 2
    /\ frames[result].cols["flag_BODut"][1]
    /\ frames[result].cols["flag_BODlt"][1]
    /\ ~frames[result].cols["flag_BODut"][2]
    /\ ~frames[result].cols["flag_BODlt"][2]

\* the normalised lower threshold is at most the normalised upper one, and
\* a true lower flag comes with a true upper flag
ThresholdsOrdered(lt, ut, flag_lt, flag_ut) ==
    \A k \in 1..frames[result].n :
        /\ FLe(frames[result].cols[lt][k], frames[result].cols[ut][k])
        /\ frames[result].cols[flag_lt][k] => frames[result].cols[flag_ut][k]

\* C28, as claimed: for every frame with max(influent) # min(effluent) and
\* limits with lower < upper, BODlt <= BODut and CODlt <= CODut, so a true
\* lower flag implies a true upper flag in every row.
C28_ThresholdsOrdered ==
    ppc = "returned" =>
        /\ (~ZeroRange("bod1", "bod31") /\ limits.bod_lower < limits.bod_upper)
              => ThresholdsOrdered("BODlt", "BODut", "flag_BODlt", "flag_BODut")
        /\ (~ZeroRange("cod1", "cod31") /\ limits.cod_lower < limits.cod_upper)
              => ThresholdsOrdered("CODlt", "CODut", "flag_CODlt", "flag_CODut")

\* C28, amended: the same for limits with min(effluent) <= lower < upper.
C28_ThresholdsOrderedAboveFloor ==
    ppc = "returned" =>
        /\ (~ZeroRange("bod1", "bod31") /\ limits.bod_lower < limits.bod_upper
                /\ LimitAboveFloor("bod31", limits.bod_lower))
              => ThresholdsOrdered("BODlt", "BODut", "flag_BODlt", "flag_BODut")
        /\ (~ZeroRange("cod1", "cod31") /\ limits.cod_lower < limits.cod_upper
                /\ LimitAboveFloor("cod31", limits.cod_lower))
              => ThresholdsOrdered("CODlt", "CODut", "flag_CODlt", "flag_CODut")

\* a returned frame with min(effluent) <= lower < upper for BOD in which the
\* thresholds differ, one row has both flags and another only the upper
C28_Witness ==
    /\ ppc = "returned"
    /\ ~ZeroRange("bod1", "bod31")
    /\ LimitAboveFloor("bod31", limits.bod_lower)
    /\ limits.bod_lower < limits.bod_upper
    /\ frames[result].n = 2
    /\ FLt(frames[result].cols["BODlt"][1], frames[result].cols["BODut"][1])
    /\ frames[result].cols["flag_BODlt"][1]
    /\ frames[result].cols["flag_BODut"][1]
    /\ ~frames[result].cols["flag_BODlt"][2]
    /\ frames[result].cols["flag_BODut"][2]

-----------------------------------------------------------------------------
(* Properties of run_full_analysis (SpecAnalysis) *)

\* the scenarios the loop has been through, the one that raised included
Reached ==
    {SCENARIOS[k] : k \in 1..(Len(SCENARIOS) - Len(todo))} \cup
    (IF apc = "raised" THEN {Head(todo)} ELSE {})

\* C13: when the frame loaded for a scenario is empty, process_scenario
\* fails the scenario with a validation error that reaches the caller; the
\* loop never goes past such a scenario as if nothing had happened.
C13_EmptyDatasetFails ==
    \A key \in Reached :
        (folders[key].n = 0 \/ DOMAIN folders[key].cols = {})
            => apc = "raised" /\ escaped = "DataValidationError"

\* C14: an error raised while a scenario is processed aborts only that
\* scenario: no exception leaves run_full_analysis, and the results it
\* returns hold every scenario whose own frame is processed without error.
C14_ErrorIsolated ==
    /\ escaped = ""
    /\ apc # "raised"
    /\ apc = "returned" =>
          \A k \in 1..Len(SCENARIOS) :
              LET out == process_scenario(folders[SCENARIOS[k]], ComplianceLimits)
              IN  (out.raised = "" /\ out.value[1].n > 0)
                      => SCENARIOS[k] \in DOMAIN results

-----------------------------------------------------------------------------
(* Properties of retry (SpecRetry) *)

\* C23: with max_attempts = n >= 1 func is invoked at most n times, one
\* after another; the wrapper returns the result of the first invocation
\* that succeeds and makes no further attempt; if all n invocations raise,
\* the exception of the n-th is raised and no delay follows it.
C23_RetryContract ==
    max_attempts >= 1 =>
        /\ Len(history) <= max_attempts
        /\ \A k \in 1..(Len(history) - 1) : history[k] # "result"
        /\ tpc = "loop" => Len(slept) = Len(history)
        /\ tpc = "done" =>
              /\ Len(slept) = Len(history) - 1
              /\ outcome[1].invocation = Len(history)
              /\ outcome[1].what = history[Len(history)]
              /\ outcome[1].kind =
                    IF history[Len(history)] = "result" THEN "returned"
                    ELSE "raised"
              /\ (\A k \in 1..Len(history) : history[k] \in {"ValueError", "OSError"})
                    => Len(history) = max_attempts

\* all of three invocations raised: the third exception reached the caller
\* after two delays
C23_Witness ==
    /\ tpc = "done"
    /\ max_attempts = 3
    /\ Len(history) = 3
    /\ outcome[1].kind = "raised"
    /\ outcome[1].what = "OSError"
    /\ history[1] = "ValueError"
    /\ Len(slept) = 2

\* the second invocation succeeded and its result was returned
SecondAttemptSucceeds ==
    /\ tpc = "done"
    /\ max_attempts = 3
    /\ history = <<"ValueError", "result">>
    /\ outcome[1].kind = "returned"

=============================================================================
